---- MODULE Spec2Model ----
(***************************************************************************)
(* Construction of the Open-NSFW residual network (opennsfw2/model.py):    *)
(* the weight lookup _get_weights, the layer factories, the two residual   *)
(* block builders and make_open_nsfw_model_and_load_weights, modelled as a *)
(* state machine that builds the network one top-level statement at a time *)
(* while recording every lookup, layer, block and merge it performs.       *)
(* Tensors are represented by their per-sample shape, arrays of the        *)
(* weight archive by their origin, one representative value, dtype and     *)
(* element count.                                                          *)
(***************************************************************************)
EXTENDS Integers, Sequences, FiniteSets, TLC

VARIABLES WEIGHTS, input_shape, args, pc, x, status, errkind, err,
          calls, layers, adds, blocks, output

vars == <<WEIGHTS, input_shape, args, pc, x, status, errkind, err,
          calls, layers, adds, blocks, output>>

Range(s) == {s[i] : i \in DOMAIN s}

RECURSIVE Prod(_)
Prod(s) == IF s = <<>> THEN 1 ELSE Head(s) * Prod(Tail(s))

(***************************************************************************)
(* Arrays and the float32 cast of _get_weights                             *)
(***************************************************************************)

\* Placeholder where no array is returned (an exception was raised instead).
NoArray == [id |-> <<>>, val |-> 0, dtype |-> "none", size |-> 0]

\* Integers up to 2^24 are exact in single precision; between 2^24 and 2^25
\* the spacing is 2 and an odd integer is a tie, rounded to the even mantissa.
Round32(v) ==
    IF v <= 2^24 THEN v
    ELSE IF v % 2 = 0 THEN v
    ELSE IF ((v - 1) \div 2) % 2 = 0 THEN v - 1 ELSE v + 1

\* ndarray.astype(np.float32)
astype_float32(a) == [a EXCEPT !.val = Round32(@), !.dtype = "float32"]

(***************************************************************************)
(* _get_weights                                                            *)
(***************************************************************************)

\* _get_weights falling back to a default array when the field is absent.
get_weights_default(layer_name, field_name) ==
    IF layer_name \notin DOMAIN WEIGHTS
    THEN [ok |-> FALSE, ret |-> NoArray,
          err |-> <<"No weights found for layer ", layer_name, ".">>]
    ELSE IF field_name \notin DOMAIN WEIGHTS[layer_name]
    THEN [ok |-> TRUE, ret |-> [NoArray EXCEPT !.dtype = "float32", !.size = 1],
          err |-> <<>>]
    ELSE [ok |-> TRUE, ret |-> astype_float32(WEIGHTS[layer_name][field_name]),
          err |-> <<>>]

\* The message of an exception is the sequence of the literal pieces of the
\* f-string and the interpolated values.
get_weights(layer_name, field_name) ==
    IF layer_name \notin DOMAIN WEIGHTS
    THEN [ok |-> FALSE, ret |-> NoArray,
          err |-> <<"No weights found for layer ", layer_name, ".">>]
    ELSE IF field_name \notin DOMAIN WEIGHTS[layer_name]
    THEN [ok |-> FALSE, ret |-> NoArray,
          err |-> <<"No field ", field_name, " in layer ", layer_name, ".">>]
    ELSE [ok |-> TRUE, ret |-> astype_float32(WEIGHTS[layer_name][field_name]),
          err |-> <<>>]

(***************************************************************************)
(* The construction context: what one run of the builder has done so far.  *)
(* ok = FALSE means an exception is propagating; every later step is       *)
(* skipped.  t is the shape of the tensor produced last.                   *)
(***************************************************************************)

Raise(c, kind, msg) == [c EXCEPT !.ok = FALSE, !.kind = kind, !.err = msg]

\* One call of _get_weights made while evaluating a constructor's arguments.
Lookup(c, layer_name, field_name) ==
    IF ~c.ok THEN c
    ELSE LET r == get_weights(layer_name, field_name)
             c1 == [c EXCEPT !.calls = Append(@,
                        [layer |-> layer_name, field |-> field_name,
                         ok |-> r.ok, ret |-> r.ret])]
         IN  IF r.ok THEN c1 ELSE Raise(c1, "lookup", r.err)

RECURSIVE Lookups(_, _, _)
Lookups(c, layer_name, fields) ==
    IF fields = <<>> THEN c
    ELSE Lookups(Lookup(c, layer_name, Head(fields)), layer_name, Tail(fields))

\* The arrays returned by the last n lookups, in call order.
LastRets(c, n) ==
    [i \in 1..n |-> c.calls[Len(c.calls) - n + i].ret]

\* tf.constant_initializer(value)(shape): the value fills a variable of the
\* given shape when the element counts agree or the value has one element.
Fits(a, shape) == a.size = Prod(shape) \/ a.size = 1

(***************************************************************************)
(* Shape arithmetic of the Keras layers used                               *)
(***************************************************************************)

OutDim(n, k, s, padding) ==
    IF padding = "same" THEN (n + s - 1) \div s
    ELSE IF n < k THEN 0 ELSE ((n - k) \div s) + 1

\* layers.Add: element-wise merge with broadcasting of dimensions equal to 1.
Broadcastable(a, b) ==
    /\ Len(a) = Len(b)
    /\ \A i \in DOMAIN a : a[i] = b[i] \/ a[i] = 1 \/ b[i] = 1

Broadcast(a, b) == [i \in DOMAIN a |-> IF a[i] = 1 THEN b[i] ELSE a[i]]

\* layers.Reshape(target_shape): target_shape excludes the batch axis and may
\* hold one -1, inferred from the number of elements of one sample.
ReshapeTarget(target_shape, inputs) ==
    LET known == Prod([i \in DOMAIN target_shape |->
                         IF target_shape[i] = -1 THEN 1 ELSE target_shape[i]])
    IN  [i \in DOMAIN target_shape |->
           IF target_shape[i] = -1 THEN Prod(inputs) \div known
           ELSE target_shape[i]]

(***************************************************************************)
(* Parameterized layer factories, each applied to its input at once as in  *)
(* the source: _conv2d(...)(inputs).  The keyword arguments are evaluated  *)
(* in source order, so the lookups happen in that order; the variables are *)
(* created from the initializers when the layer is called.                 *)
(***************************************************************************)

\* The layer called on its input: c is the context after the lookups.
conv2d_call(c, name, num_filters, kernel_size, stride, padding, inputs) ==
    LET p == LastRets(c, 2)
        out == <<OutDim(inputs[1], kernel_size, stride, padding),
                 OutDim(inputs[2], kernel_size, stride, padding),
                 num_filters>>
    IN  IF ~c.ok THEN c
        ELSE IF \/ ~Fits(p[1], <<kernel_size, kernel_size, inputs[3], num_filters>>)
                \/ ~Fits(p[2], <<num_filters>>)
        THEN Raise(c, "shape", <<"initializer of ", name>>)
        ELSE IF out[1] < 1 \/ out[2] < 1
        THEN Raise(c, "shape", <<"output of ", name>>)
        ELSE [c EXCEPT !.t = out,
                       !.layers = Append(@, [name |-> name, kind |-> "conv",
                                             params |-> p])]

conv2d(c, name, num_filters, kernel_size, stride, padding, inputs) ==
    conv2d_call(Lookups(c, name, <<"weights", "biases">>),
                name, num_filters, kernel_size, stride, padding, inputs)

\* batch_norm with the moving_variance_initializer argument left out.
batch_norm_no_variance_call(c, name, inputs) ==
    LET p == LastRets(c, 3)
        ch == <<inputs[Len(inputs)]>>
    IN  IF ~c.ok THEN c
        ELSE IF \E i \in 1..3 : ~Fits(p[i], ch)
        THEN Raise(c, "shape", <<"initializer of ", name>>)
        ELSE [c EXCEPT !.t = inputs,
                       !.layers = Append(@, [name |-> name, kind |-> "bn",
                                             params |-> p])]

batch_norm_no_variance(c, name, inputs) ==
    batch_norm_no_variance_call(Lookups(c, name, <<"scale", "offset", "mean">>),
                                name, inputs)

batch_norm_call(c, name, inputs) ==
    LET p == LastRets(c, 4)
        ch == <<inputs[Len(inputs)]>>
    IN  IF ~c.ok THEN c
        ELSE IF \E i \in 1..4 : ~Fits(p[i], ch)
        THEN Raise(c, "shape", <<"initializer of ", name>>)
        ELSE [c EXCEPT !.t = inputs,
                       !.layers = Append(@, [name |-> name, kind |-> "bn",
                                             params |-> p])]

batch_norm(c, name, inputs) ==
    batch_norm_call(Lookups(c, name, <<"scale", "offset", "mean", "variance">>),
                    name, inputs)

fully_connected_call(c, name, units, inputs) ==
    LET p == LastRets(c, 2)
        n == Len(inputs)
    IN  IF ~c.ok THEN c
        ELSE IF ~Fits(p[1], <<inputs[n], units>>) \/ ~Fits(p[2], <<units>>)
        THEN Raise(c, "shape", <<"initializer of ", name>>)
        ELSE [c EXCEPT !.t = [inputs EXCEPT ![n] = units],
                       !.layers = Append(@, [name |-> name, kind |-> "dense",
                                             params |-> p])]

fully_connected(c, name, units, inputs) ==
    fully_connected_call(Lookups(c, name, <<"weights", "biases">>),
                         name, units, inputs)

\* layers.Add()([a, b]) inside block (stage, block) of the given kind.  Every
\* merge attempted is recorded with the two shapes it was given.
add(c, kind, stage, block, a, b) ==
    IF ~c.ok THEN c
    ELSE LET c1 == [c EXCEPT !.adds = Append(@,
                        [kind |-> kind, stage |-> stage, block |-> block,
                         main |-> a, shortcut |-> b,
                         ok |-> Broadcastable(a, b)])]
         IN  IF ~Broadcastable(a, b)
             THEN Raise(c1, "shape", <<"Inputs have incompatible shapes">>)
             ELSE [c1 EXCEPT !.t = Broadcast(a, b)]

\* tf.nn.relu keeps the shape.
relu(c) == c

\* The statement forms  x = layer(...)(x)  of the source: the layer is applied
\* to the tensor produced by the statement before it.
conv2d_x(c, name, num_filters, kernel_size, stride, padding) ==
    conv2d(c, name, num_filters, kernel_size, stride, padding, c.t)

batch_norm_x(c, name) == batch_norm(c, name, c.t)

add_x(c, kind, stage, block, other) == add(c, kind, stage, block, c.t, other)

(***************************************************************************)
(* Residual block builders                                                 *)
(***************************************************************************)

\* Lines 107-138: the main path of _conv_block and the merge; s is the
\* context after the shortcut has been built, s.t the shortcut tensor.
conv_block_main(s, stage, block, inputs, nums_filters, kernel_size, stride) ==
    LET num_filters_1 == nums_filters[1]
        num_filters_2 == nums_filters[2]
        num_filters_3 == nums_filters[3]
        conv_name_base == "conv_stage" \o ToString(stage) \o "_block"
                              \o ToString(block) \o "_branch"
        bn_name_base == "bn_stage" \o ToString(stage) \o "_block"
                              \o ToString(block) \o "_branch"
    IN  relu(add_x(
          batch_norm_x(
            conv2d_x(
              relu(batch_norm_x(
                conv2d_x(
                  relu(batch_norm_x(
                    conv2d(s, conv_name_base \o "2a", num_filters_1, 1,
                           stride, "same", inputs),
                    bn_name_base \o "2a")),
                  conv_name_base \o "2b", num_filters_2, kernel_size, 1, "same"),
                bn_name_base \o "2b")),
              conv_name_base \o "2c", num_filters_3, 1, 1, "same"),
            bn_name_base \o "2c"),
          "conv", stage, block, s.t))

\* _conv_block whose shortcut convolution ignores the stride.
conv_block_shortcut_stride1(c, stage, block, inputs, nums_filters, kernel_size, stride) ==
    LET num_filters_3 == nums_filters[3]
        shortcut_name_post == "_stage" \o ToString(stage) \o "_block"
                              \o ToString(block) \o "_proj_shortcut"
    IN  conv_block_main(
          batch_norm_x(
            conv2d(c, "conv" \o shortcut_name_post, num_filters_3, 1,
                   1, "same", inputs),
            "bn" \o shortcut_name_post),
          stage, block, inputs, nums_filters, kernel_size, stride)

conv_block(c, stage, block, inputs, nums_filters, kernel_size, stride) ==
    LET num_filters_3 == nums_filters[3]
        shortcut_name_post == "_stage" \o ToString(stage) \o "_block"
                              \o ToString(block) \o "_proj_shortcut"
    IN  conv_block_main(
          batch_norm_x(
            conv2d(c, "conv" \o shortcut_name_post, num_filters_3, 1,
                   stride, "same", inputs),
            "bn" \o shortcut_name_post),
          stage, block, inputs, nums_filters, kernel_size, stride)

\* _identity_block whose last convolution is given the second filter width.
identity_block_2c_width(c, stage, block, inputs, nums_filters, kernel_size) ==
    LET num_filters_1 == nums_filters[1]
        num_filters_2 == nums_filters[2]
        num_filters_3 == nums_filters[3]
        conv_name_base == "conv_stage" \o ToString(stage) \o "_block"
                              \o ToString(block) \o "_branch"
        bn_name_base == "bn_stage" \o ToString(stage) \o "_block"
                              \o ToString(block) \o "_branch"
    IN  relu(add_x(
          batch_norm_x(
            conv2d_x(
              relu(batch_norm_x(
                conv2d_x(
                  relu(batch_norm_x(
                    conv2d(c, conv_name_base \o "2a", num_filters_1, 1,
                           1, "same", inputs),
                    bn_name_base \o "2a")),
                  conv_name_base \o "2b", num_filters_2, kernel_size, 1, "same"),
                bn_name_base \o "2b")),
              conv_name_base \o "2c", num_filters_2, 1, 1, "same"),
            bn_name_base \o "2c"),
          "identity", stage, block, inputs))

\* _identity_block whose layer names hard-code block 1.
identity_block_block1(c, stage, block, inputs, nums_filters, kernel_size) ==
    LET num_filters_1 == nums_filters[1]
        num_filters_2 == nums_filters[2]
        num_filters_3 == nums_filters[3]
        conv_name_base == "conv_stage" \o ToString(stage) \o "_block"
                              \o ToString(1) \o "_branch"
        bn_name_base == "bn_stage" \o ToString(stage) \o "_block"
                              \o ToString(1) \o "_branch"
    IN  relu(add_x(
          batch_norm_x(
            conv2d_x(
              relu(batch_norm_x(
                conv2d_x(
                  relu(batch_norm_x(
                    conv2d(c, conv_name_base \o "2a", num_filters_1, 1,
                           1, "same", inputs),
                    bn_name_base \o "2a")),
                  conv_name_base \o "2b", num_filters_2, kernel_size, 1, "same"),
                bn_name_base \o "2b")),
              conv_name_base \o "2c", num_filters_3, 1, 1, "same"),
            bn_name_base \o "2c"),
          "identity", stage, block, inputs))

identity_block(c, stage, block, inputs, nums_filters, kernel_size) ==
    LET num_filters_1 == nums_filters[1]
        num_filters_2 == nums_filters[2]
        num_filters_3 == nums_filters[3]
        conv_name_base == "conv_stage" \o ToString(stage) \o "_block"
                              \o ToString(block) \o "_branch"
        bn_name_base == "bn_stage" \o ToString(stage) \o "_block"
                              \o ToString(block) \o "_branch"
    IN  relu(add_x(
          batch_norm_x(
            conv2d_x(
              relu(batch_norm_x(
                conv2d_x(
                  relu(batch_norm_x(
                    conv2d(c, conv_name_base \o "2a", num_filters_1, 1,
                           1, "same", inputs),
                    bn_name_base \o "2a")),
                  conv_name_base \o "2b", num_filters_2, kernel_size, 1, "same"),
                bn_name_base \o "2b")),
              conv_name_base \o "2c", num_filters_3, 1, 1, "same"),
            bn_name_base \o "2c"),
          "identity", stage, block, inputs))

(***************************************************************************)
(* make_open_nsfw_model_and_load_weights, statement by statement           *)
(***************************************************************************)

\* tf.pad(x, [[0, 0], [3, 3], [3, 3], [0, 0]]) on a per-sample shape.
pad(shape) == <<shape[1] + 3 + 3, shape[2] + 3 + 3, shape[3]>>

\* layers.MaxPooling2D(pool_size=3, strides=2, padding="same")
max_pool(c) ==
    IF ~c.ok THEN c
    ELSE [c EXCEPT !.t = <<OutDim(c.t[1], 3, 2, "same"),
                           OutDim(c.t[2], 3, 2, "same"), c.t[3]>>]

\* Lines 190-200: input, zero padding, conv_1, bn_1, relu, max pooling.
stem(c, shape) ==
    max_pool(relu(batch_norm_x(
        conv2d(c, "conv_1", 64, 7, 2, "valid", pad(shape)), "bn_1")))

\* One block call of lines 202-243 with its arguments; _identity_block takes no
\* stride (all its convolutions use stride 1).
ConvCall(stage, block, nums_filters, kernel_size, stride) ==
    [kind |-> "conv", stage |-> stage, block |-> block,
     nums_filters |-> nums_filters, kernel_size |-> kernel_size, stride |-> stride]

IdentityCall(stage, block, nums_filters, kernel_size) ==
    [kind |-> "identity", stage |-> stage, block |-> block,
     nums_filters |-> nums_filters, kernel_size |-> kernel_size, stride |-> 1]

\* The block calls with the last identity block of stage 2 left out.
Body_stage2_short ==
    <<
       ConvCall(0, 0, <<32, 32, 128>>, 3, 1),
       IdentityCall(0, 1, <<32, 32, 128>>, 3),
       IdentityCall(0, 2, <<32, 32, 128>>, 3),
       ConvCall(1, 0, <<64, 64, 256>>, 3, 2),
       IdentityCall(1, 1, <<64, 64, 256>>, 3),
       IdentityCall(1, 2, <<64, 64, 256>>, 3),
       IdentityCall(1, 3, <<64, 64, 256>>, 3),
       ConvCall(2, 0, <<128, 128, 512>>, 3, 2),
       IdentityCall(2, 1, <<128, 128, 512>>, 3),
       IdentityCall(2, 2, <<128, 128, 512>>, 3),
       IdentityCall(2, 3, <<128, 128, 512>>, 3),
       IdentityCall(2, 4, <<128, 128, 512>>, 3),
       ConvCall(3, 0, <<256, 256, 1024>>, 3, 2),
       IdentityCall(3, 1, <<256, 256, 1024>>, 3),
       IdentityCall(3, 2, <<256, 256, 1024>>, 3) >>

\* Lines 202-243: the sixteen block calls, in source order.
Body ==
    <<
       ConvCall(0, 0, <<32, 32, 128>>, 3, 1),
       IdentityCall(0, 1, <<32, 32, 128>>, 3),
       IdentityCall(0, 2, <<32, 32, 128>>, 3),
       ConvCall(1, 0, <<64, 64, 256>>, 3, 2),
       IdentityCall(1, 1, <<64, 64, 256>>, 3),
       IdentityCall(1, 2, <<64, 64, 256>>, 3),
       IdentityCall(1, 3, <<64, 64, 256>>, 3),
       ConvCall(2, 0, <<128, 128, 512>>, 3, 2),
       IdentityCall(2, 1, <<128, 128, 512>>, 3),
       IdentityCall(2, 2, <<128, 128, 512>>, 3),
       IdentityCall(2, 3, <<128, 128, 512>>, 3),
       IdentityCall(2, 4, <<128, 128, 512>>, 3),
       IdentityCall(2, 5, <<128, 128, 512>>, 3),
       ConvCall(3, 0, <<256, 256, 1024>>, 3, 2),
       IdentityCall(3, 1, <<256, 256, 1024>>, 3),
       IdentityCall(3, 2, <<256, 256, 1024>>, 3) >>

\* Lines 245-251: average pooling, reshape, dense layer, softmax.
head(c, inputs) ==
    LET pooled == <<OutDim(inputs[1], 7, 1, "valid"),
                    OutDim(inputs[2], 7, 1, "valid"), inputs[3]>>
        target == <<-1, 1024>>
    IN  IF ~c.ok THEN c
        ELSE IF pooled[1] < 1 \/ pooled[2] < 1
        THEN Raise(c, "shape", <<"output of ", "pool">>)
        ELSE IF Prod(pooled) % 1024 # 0
        THEN Raise(c, "shape", <<"total size of new array must be unchanged">>)
        ELSE fully_connected(c, "fc_nsfw", 2, ReshapeTarget(target, pooled))

(***************************************************************************)
(* The weight archive loaded into WEIGHTS (lines 13-15).  The file is an   *)
(* input of the program: the pretrained archive holds one bundle per layer *)
(* of the Open-NSFW network, with arrays of the sizes the layers declare.  *)
(***************************************************************************)

Dtypes == {"float32", "float64"}

Arr(layer, field, size, dt) ==
    [id |-> <<layer, field>>,
     val |-> IF dt = "float64" THEN 2^24 + 1 ELSE 3,
     dtype |-> dt, size |-> size]

ConvBundle(name, k, cin, nf, dt) ==
    [weights |-> Arr(name, "weights", k * k * cin * nf, dt),
     biases |-> Arr(name, "biases", nf, dt)]

BnBundle(name, ch, dt) ==
    [f \in {"scale", "offset", "mean", "variance"} |-> Arr(name, f, ch, dt)]

DenseBundle(name, cin, units, dt) ==
    [weights |-> Arr(name, "weights", cin * units, dt),
     biases |-> Arr(name, "biases", units, dt)]

BlockName(prefix, stage, block, suffix) ==
    prefix \o "_stage" \o ToString(stage) \o "_block" \o ToString(block)
           \o "_" \o suffix

\* The bundles of one bottleneck block: input width cin, widths f, kernel k.
BlockBundles(stage, block, cin, f, k, proj, dt) ==
    LET N(p, sfx) == BlockName(p, stage, block, sfx)
    IN  { <<N("conv", "branch2a"), ConvBundle(N("conv", "branch2a"), 1, cin, f[1], dt)>>,
          <<N("bn", "branch2a"), BnBundle(N("bn", "branch2a"), f[1], dt)>>,
          <<N("conv", "branch2b"), ConvBundle(N("conv", "branch2b"), k, f[1], f[2], dt)>>,
          <<N("bn", "branch2b"), BnBundle(N("bn", "branch2b"), f[2], dt)>>,
          <<N("conv", "branch2c"), ConvBundle(N("conv", "branch2c"), 1, f[2], f[3], dt)>>,
          <<N("bn", "branch2c"), BnBundle(N("bn", "branch2c"), f[3], dt)>> }
        \cup
        IF proj
        THEN { <<N("conv", "proj_shortcut"),
                 ConvBundle(N("conv", "proj_shortcut"), 1, cin, f[3], dt)>>,
               <<N("bn", "proj_shortcut"), BnBundle(N("bn", "proj_shortcut"), f[3], dt)>> }
        ELSE {}

ArchiveOf(entries) ==
    [n \in {e[1] : e \in entries} |-> (CHOOSE e \in entries : e[1] = n)[2]]

\* Stage s of the pretrained network: number of blocks, input width, widths.
PretrainedStages ==
    << [blocks |-> 3, cin |-> 64,  f |-> <<32, 32, 128>>],
       [blocks |-> 4, cin |-> 128, f |-> <<64, 64, 256>>],
       [blocks |-> 6, cin |-> 256, f |-> <<128, 128, 512>>],
       [blocks |-> 3, cin |-> 512, f |-> <<256, 256, 1024>>] >>

Pretrained(dt) ==
    ArchiveOf(
        { <<"conv_1", ConvBundle("conv_1", 7, 3, 64, dt)>>,
          <<"bn_1", BnBundle("bn_1", 64, dt)>>,
          <<"fc_nsfw", DenseBundle("fc_nsfw", 1024, 2, dt)>> }
        \cup
        UNION { BlockBundles(s - 1, b, 
                             IF b = 0 THEN PretrainedStages[s].cin
                                      ELSE PretrainedStages[s].f[3],
                             PretrainedStages[s].f, 3, b = 0, dt)
                : <<s, b>> \in { <<s, b>> \in (1..4) \X (0..5) :
                                   b < PretrainedStages[s].blocks } })

Pretrained32 == Pretrained("float32")

Pretrained64 == Pretrained("float64")

\* Every (layer, field) key of an archive.
Keys(W) == UNION { { [layer |-> l, field |-> f] : f \in DOMAIN W[l] } : l \in DOMAIN W }

PretrainedKeys == Keys(Pretrained32)

WithoutField(W, l, f) == [W EXCEPT ![l] = [g \in (DOMAIN W[l]) \ {f} |-> W[l][g]]]

WithoutLayer(W, l) == [n \in (DOMAIN W) \ {l} |-> W[n]]

WithLayer(W, l, bundle) == [n \in (DOMAIN W) \cup {l} |-> IF n = l THEN bundle ELSE W[n]]

WithField(W, l, f, a) ==
    [W EXCEPT ![l] = [g \in (DOMAIN W[l]) \cup {f} |-> IF g = f THEN a ELSE W[l][g]]]

\* The archives construction is run against: the pretrained one, the
\* pretrained one with one key or one bundle removed, and the pretrained one
\* with a bundle or a field no layer of the network asks for.
Archives ==
    {Pretrained32, Pretrained64}
    \cup { WithoutField(Pretrained32, K.layer, K.field) : K \in PretrainedKeys }
    \cup { WithoutLayer(Pretrained32, l) : l \in DOMAIN Pretrained32 }
    \cup { WithLayer(Pretrained32, "prob", [weights |-> Arr("prob", "weights", 2, "float32")]) }
    \cup { WithField(Pretrained32, l, "momentum", Arr(l, "momentum", 1, "float32"))
           : l \in {"bn_1", "fc_nsfw"} }

InputShapes == { <<224, 224, 3>>, <<256, 256, 3>>, <<96, 96, 3>> }

NoArgs == [nums_filters |-> <<>>, kernel_size |-> 0]

(***************************************************************************)
(* The state machine of one construction                                   *)
(***************************************************************************)

Init ==
    /\ \/ WEIGHTS \in Archives /\ input_shape = <<224, 224, 3>>
       \/ WEIGHTS \in {Pretrained32, Pretrained64} /\ input_shape \in InputShapes
    /\ args = NoArgs
    /\ pc = 0
    /\ x = input_shape
    /\ status = "building"
    /\ errkind = "none"
    /\ err = <<>>
    /\ calls = <<>>
    /\ layers = <<>>
    /\ adds = <<>>
    /\ blocks = <<>>
    /\ output = <<>>

Cur ==
    [ok |-> TRUE, kind |-> "none", err |-> <<>>, t |-> x,
     calls |-> calls, layers |-> layers, adds |-> adds]

\* The effect of one statement that ended as c: its results are kept, or the
\* exception it raised ends the construction and x is not assigned.
Commit(c, entry, last) ==
    /\ x' = IF c.ok THEN c.t ELSE x
    /\ calls' = c.calls
    /\ layers' = c.layers
    /\ adds' = c.adds
    /\ errkind' = c.kind
    /\ err' = c.err
    /\ blocks' = IF c.ok THEN Append(blocks, [entry EXCEPT !.out = c.t]) ELSE blocks
    /\ status' = IF ~c.ok THEN "error" ELSE IF last THEN "done" ELSE "building"
    /\ pc' = IF c.ok THEN pc + 1 ELSE pc
    /\ output' = IF c.ok /\ last THEN c.t ELSE output
    /\ UNCHANGED <<WEIGHTS, input_shape, args>>

StemCall ==
    /\ status = "building" /\ pc = 0
    /\ Commit(stem(Cur, input_shape),
              [kind |-> "stem", stage |-> -1, block |-> 0, nums_filters |-> <<64>>,
               kernel_size |-> 7, stride |-> 2, out |-> <<>>], FALSE)

ConvBlockCall ==
    /\ status = "building" /\ pc \in DOMAIN Body /\ Body[pc].kind = "conv"
    /\ LET b == Body[pc]
       IN  Commit(conv_block(Cur, b.stage, b.block, x, b.nums_filters,
                             b.kernel_size, b.stride),
                  b @@ [out |-> <<>>], FALSE)

IdentityBlockCall ==
    /\ status = "building" /\ pc \in DOMAIN Body /\ Body[pc].kind = "identity"
    /\ LET b == Body[pc]
       IN  Commit(identity_block(Cur, b.stage, b.block, x, b.nums_filters,
                                 b.kernel_size),
                  b @@ [out |-> <<>>], FALSE)

HeadAndModel ==
    /\ status = "building" /\ pc = Len(Body) + 1
    /\ Commit(head(Cur, x),
              [kind |-> "head", stage |-> 4, block |-> 0, nums_filters |-> <<2>>,
               kernel_size |-> 7, stride |-> 1, out |-> <<>>], TRUE)

Next == StemCall \/ ConvBlockCall \/ IdentityBlockCall \/ HeadAndModel

Spec == Init /\ [][Next]_vars

(***************************************************************************)
(* One identity block constructed on its own: _identity_block called with  *)
(* an input tensor and filter widths drawn from small sets, against an     *)
(* archive fitted to the configured widths or the pretrained archive.      *)
(***************************************************************************)

MaxChan == 3

MaxSide == 2

ChanSet == (1..MaxChan) \cup {32, 128}

FittedBlock(cin, f, k) ==
    ArchiveOf(BlockBundles(0, 1, cin, f, k, FALSE, "float32"))

InitIdentity ==
    /\ \E cin \in ChanSet, side \in 1..MaxSide, f \in ChanSet \X ChanSet \X ChanSet,
          k \in {1, 3}, fitted \in BOOLEAN :
          /\ input_shape = <<side, side, cin>>
          /\ args = [nums_filters |-> f, kernel_size |-> k]
          /\ WEIGHTS = IF fitted THEN FittedBlock(cin, f, k) ELSE Pretrained32
    /\ pc = 0
    /\ x = input_shape
    /\ status = "building"
    /\ errkind = "none"
    /\ err = <<>>
    /\ calls = <<>>
    /\ layers = <<>>
    /\ adds = <<>>
    /\ blocks = <<>>
    /\ output = <<>>

IdentityBlockAlone ==
    /\ status = "building" /\ args # NoArgs
    /\ Commit(identity_block(Cur, 0, 1, x, args.nums_filters, args.kernel_size),
              [kind |-> "identity", stage |-> 0, block |-> 1,
               nums_filters |-> args.nums_filters,
               kernel_size |-> args.kernel_size, stride |-> 1, out |-> <<>>],
              TRUE)

NextIdentity == IdentityBlockAlone

SpecIdentity == InitIdentity /\ [][NextIdentity]_vars

(***************************************************************************)
(* Properties                                                              *)
(***************************************************************************)

\* The keys of the pretrained archive that WEIGHTS lacks.
MissingKeys ==
    { K \in PretrainedKeys :
        \/ K.layer \notin DOMAIN WEIGHTS
        \/ K.field \notin DOMAIN WEIGHTS[K.layer] }

\* The keys _get_weights has been called with so far.
LookedUp == { [layer |-> calls[i].layer, field |-> calls[i].field] : i \in DOMAIN calls }

IsBlock(e) == e.kind \in {"conv", "identity"}

Pow2(n) == 2 ^ n

\* C1: a construction that completes has looked up exactly the keys of the
\* pretrained archive, and against an archive that lacks exactly one of those
\* keys K (its bundle still present) the construction ends with the lookup
\* error of K's own layer and field, raised by the call for K, and returns no
\* model.
C1_SingleMissingKeyFailsAtThatKey ==
    /\ status = "done" => LookedUp = PretrainedKeys
    /\ \A K \in MissingKeys :
         (MissingKeys = {K} /\ K.layer \in DOMAIN WEIGHTS /\ status # "building")
         => /\ status = "error"
            /\ errkind = "lookup"
            /\ err = <<"No field ", K.field, " in layer ", K.layer, ".">>
            /\ calls[Len(calls)].layer = K.layer
            /\ calls[Len(calls)].field = K.field
            /\ ~calls[Len(calls)].ok
            /\ output = <<>>

C1_Witness ==
    /\ status = "error"
    /\ MissingKeys = {[layer |-> "bn_stage2_block3_branch2b", field |-> "mean"]}
    /\ err = <<"No field ", "mean", " in layer ", "bn_stage2_block3_branch2b", ".">>

\* C2 (as claimed): the message of every lookup failure names both the layer
\* and the field of the failing call.
C2_ErrorNamesLayerAndField ==
    (status = "error" /\ errkind = "lookup")
    => /\ calls[Len(calls)].layer \in Range(err)
       /\ calls[Len(calls)].field \in Range(err)

\* C3: every call of _get_weights whose layer and field are both present
\* returns the array stored under exactly that key, converted to float32 (same
\* origin and element count, the value rounded to single precision and
\* unchanged when representable); every call whose layer or field is absent
\* returns nothing and ends the construction with a lookup error; and every
\* parameter of every constructed layer is an array of the archive stored under
\* the layer's own name.
C3_LookupExactOrFails ==
    /\ \A i \in DOMAIN calls :
         LET k == calls[i]
         IN  IF k.layer \in DOMAIN WEIGHTS /\ k.field \in DOMAIN WEIGHTS[k.layer]
             THEN LET stored == WEIGHTS[k.layer][k.field]
                  IN  /\ k.ok
                      /\ k.ret.id = stored.id
                      /\ k.ret.id = <<k.layer, k.field>>
                      /\ k.ret.size = stored.size
                      /\ k.ret.dtype = "float32"
                      /\ k.ret.val - stored.val \in {-1, 0, 1}
                      /\ (stored.val <= 2^24 => k.ret.val = stored.val)
                      /\ (stored.dtype = "float32" => k.ret = stored)
             ELSE /\ ~k.ok
                  /\ k.ret = NoArray
                  /\ i = Len(calls)
                  /\ status = "error"
                  /\ errkind = "lookup"
                  /\ output = <<>>
    /\ \A i \in DOMAIN layers :
         \A j \in DOMAIN layers[i].params :
            LET a == layers[i].params[j]
            IN  /\ Len(a.id) = 2
                /\ a.id[1] = layers[i].name
                /\ a.id[1] \in DOMAIN WEIGHTS
                /\ a.id[2] \in DOMAIN WEIGHTS[a.id[1]]

C3_Witness ==
    /\ status = "error"
    /\ errkind = "lookup"
    /\ Len(calls) > 6
    /\ calls[1].ok
    /\ ~calls[Len(calls)].ok
    /\ Len(layers) > 0

\* C4 (as claimed): when construction succeeds every layer name resolved to a
\* bundle of the archive and every (layer, field) key of the archive was bound
\* to a constructed layer.
C4_NoBundleIgnored ==
    status = "done"
    => /\ \A i \in DOMAIN layers : layers[i].name \in DOMAIN WEIGHTS
       /\ Keys(WEIGHTS) \subseteq LookedUp

\* C5: the model is built as one stem, then stages 0..3 with 3, 4, 6 and 3
\* blocks in order, then one head; block 0 of each stage is the only projection
\* block; the filter widths of stage s are (32, 32, 128) * 2^s and the
\* projection strides are 1, 2, 2, 2.
C5_StageBlockSchedule ==
    LET counts == <<3, 4, 6, 3>>
    IN  /\ \A i \in DOMAIN blocks :
             /\ (blocks[i].kind = "stem") <=> (i = 1)
             /\ (blocks[i].kind = "head") <=> (i = 18)
             /\ IsBlock(blocks[i]) <=> (i \in 2..17)
        /\ \A i \in DOMAIN blocks :
             IsBlock(blocks[i]) =>
               LET e == blocks[i]
               IN  /\ e.stage \in 0..3
                   /\ e.block \in 0..(counts[e.stage + 1] - 1)
                   /\ (e.kind = "conv") <=> (e.block = 0)
                   /\ e.nums_filters = <<32 * Pow2(e.stage), 32 * Pow2(e.stage),
                                         128 * Pow2(e.stage)>>
                   /\ e.kind = "conv" => e.stride = (IF e.stage = 0 THEN 1 ELSE 2)
                   /\ i = 2 => (e.stage = 0 /\ e.block = 0)
                   /\ i > 2 =>
                        LET d == blocks[i - 1]
                        IN  \/ e.stage = d.stage /\ e.block = d.block + 1
                            \/ /\ e.stage = d.stage + 1 /\ e.block = 0
                               /\ d.block = counts[d.stage + 1] - 1
        /\ status = "done" =>
             /\ Len(blocks) = 18
             /\ \A s \in 0..3 :
                  Cardinality({i \in DOMAIN blocks :
                                 IsBlock(blocks[i]) /\ blocks[i].stage = s})
                  = counts[s + 1]

C5_Witness ==
    /\ status = "done"
    /\ Len(blocks) = 18
    /\ blocks[14].stage = 2 /\ blocks[14].block = 5

\* C6: for the 224x224x3 input and the pretrained archive the construction
\* completes, and the tensor leaving every block of stage s has 128 * 2^s
\* channels.
C6_StageChannels ==
    input_shape = <<224, 224, 3>> =>
      /\ \A i \in DOMAIN blocks :
           IsBlock(blocks[i]) => blocks[i].out[3] = 128 * Pow2(blocks[i].stage)
      /\ (WEIGHTS \in {Pretrained32, Pretrained64} /\ status # "building")
         => /\ status = "done"
            /\ Cardinality({i \in DOMAIN blocks : IsBlock(blocks[i])}) = 16

C6_Witness ==
    /\ input_shape = <<224, 224, 3>>
    /\ status = "done"
    /\ blocks[4].out[3] = 128
    /\ blocks[8].out[3] = 256
    /\ blocks[14].out[3] = 512
    /\ blocks[17].out[3] = 1024

\* C7 (as claimed): for the 224x224x3 input the stem leaves 56x56, the stages
\* leave 56, 28, 14 and 7, and the output of the model per image is a vector
\* of 2 entries with no further dimension.
C7_OutputIsFlatPair ==
    (input_shape = <<224, 224, 3>> /\ status = "done")
    => /\ blocks[1].out = <<56, 56, 64>>
       /\ blocks[4].out = <<56, 56, 128>>
       /\ blocks[8].out = <<28, 28, 256>>
       /\ blocks[14].out = <<14, 14, 512>>
       /\ blocks[17].out = <<7, 7, 1024>>
       /\ output = <<2>>

\* C8 (as claimed): an identity block whose third filter width differs from
\* the channel count of its input fails with a shape error at construction
\* and produces no output.
C8_IdentityMismatchFails ==
    (args # NoArgs /\ status # "building"
       /\ args.nums_filters[3] # input_shape[3])
    => /\ status = "error"
       /\ errkind = "shape"
       /\ blocks = <<>>
       /\ output = <<>>

\* C9: at every merge of the network the main-path output and the shortcut
\* (the block input in an identity block, the projection in a projection
\* block) have the same channel count and the same spatial dimensions, and the
\* assembled network has 12 identity merges and 4 projection merges.
C9_MergeShapesAgree ==
    /\ \A i \in DOMAIN adds : adds[i].ok /\ adds[i].main = adds[i].shortcut
    /\ status = "done" =>
         /\ Cardinality({i \in DOMAIN adds : adds[i].kind = "identity"}) = 12
         /\ Cardinality({i \in DOMAIN adds : adds[i].kind = "conv"}) = 4

C9_Witness ==
    /\ status = "done"
    /\ Len(adds) = 16
    /\ adds[4].kind = "conv"
    /\ adds[4].main = <<28, 28, 256>>
    /\ adds[4].shortcut = <<28, 28, 256>>

\* C10: over one construction no two parameterized layers share a name and no
\* (layer, field) key is looked up twice; a completed construction has built
\* 107 layers from 320 lookups.
C10_NamesCollisionFree ==
    /\ Cardinality({layers[i].name : i \in DOMAIN layers}) = Len(layers)
    /\ Cardinality(LookedUp) = Len(calls)
    /\ status = "done" => Len(layers) = 107 /\ Len(calls) = 320

C10_Witness ==
    /\ status = "done"
    /\ Len(layers) = 107
    /\ Len(calls) = 320

====
